---- MODULE Spec2Model ----
(***************************************************************************)
(* A model of src/transform/__init__.py: the three batch transformers      *)
(* SpectrogramTransformer, FlattenTransformer and                          *)
(* SpectrogramStatsTransformer.  A behaviour is one transform call: Init   *)
(* draws the transformer, its configuration and its input batch, and the   *)
(* action of that transformer runs the whole of its transform method.      *)
(*                                                                         *)
(* Arrays are records [type, shape, data].  A spectrogram magnitude is a   *)
(* symbolic cell [kind, seg, bin, col] that remembers the segment, the     *)
(* frequency bin (0-based, on the unclipped axis) and the column it came   *)
(* from, so that clipping, flattening and row placement can be observed.   *)
(* The numbers of the statistics transformer are exact rationals <<n, d>>. *)
(***************************************************************************)
EXTENDS Integers, Sequences, FiniteSets, TLC

\* op:   the transformer called ("spectrogram", "flatten" or "stats")
\* self: its configuration, as __init__ stores it
\* X:    the batch passed to transform
\* ret:  the outcome of the call: pending, a returned value or a raised error
\* lib:  how the installed PCA treats more components than the data allows
VARIABLES op, self, X, ret, lib
vars == <<op, self, X, ret, lib>>

(***************************************************************************)
(* Bounds of the model.                                                    *)
(***************************************************************************)
MaxN == 2
MaxDim == 4
MaxSeed == 2

FsValues == {2000, 4000}
NFFTValues == {4, 8}
SegmentLengths == {5, 10, 12}
ClipUpperValues == {0, 500, 600, 1000, 1500}
ClipLowerValues == {0, 250, 600, 3000}
WhitenValues == {0, 1, 2, 9}
ScaleValues == {1, 2, 3}
Axes == {0, 1, 2}

(***************************************************************************)
(* Generic helpers.                                                        *)
(***************************************************************************)
Min2(a, b) == IF a < b THEN a ELSE b
Max2(a, b) == IF a > b THEN a ELSE b

RECURSIVE Concat(_)
Concat(ss) == IF ss = <<>> THEN <<>> ELSE Head(ss) \o Concat(Tail(ss))

SeqsUpTo(S, n) == UNION {[1..k -> S] : k \in 0..n}

(***************************************************************************)
(* Values: None, arrays, results of a call.                                *)
(***************************************************************************)
None == [type |-> "NoneType", shape |-> <<>>, data |-> <<>>]
ndarray(shape, data) == [type |-> "ndarray", shape |-> shape, data |-> data]

Pending == [kind |-> "pending", value |-> None, error |-> ""]
Returned(v) == [kind |-> "returned", value |-> v, error |-> ""]
Raised(e) == [kind |-> "raised", value |-> None, error |-> e]

(***************************************************************************)
(* SpectrogramTransformer                                                  *)
(***************************************************************************)
\* __init__: an integer noverlap below 1 is 0 and stays 0; pad_to is left at
\* its default None, whiten = None is the falsy 0.
SpectrogramTransformer(Fs, NFFT, noverlap, clip_upper, clip_lower, whiten, log, flatten) ==
    [Fs |-> Fs, pad_to |-> "None", NFFT |-> NFFT,
     noverlap |-> IF noverlap < 1 THEN NFFT * noverlap ELSE noverlap,
     clip_upper |-> clip_upper, clip_lower |-> clip_lower,
     whiten |-> whiten, log |-> log, flatten |-> flatten]

\* A grid is [rows, ncol]: rows is a sequence of bins, each a sequence of ncol cells.
Grid(rows, ncol) == [rows |-> rows, ncol |-> ncol]
GridShape(g) == <<Len(g.rows), g.ncol>>
GridSize(g) == Len(g.rows) * g.ncol

\* matplotlib.mlab.specgram on a real segment with pad_to = None: the one-sided
\* frequency count, the frame count (a short segment is padded to NFFT), the
\* ascending axis freqs[b] = b * Fs / pad_to (Fs is a multiple of pad_to here).
NumFreqs(pad_to) == IF pad_to % 2 = 0 THEN pad_to \div 2 + 1 ELSE (pad_to + 1) \div 2
NumFrames(len, NFFT, noverlap) ==
    LET n == IF len < NFFT THEN NFFT ELSE len
    IN (n - noverlap) \div (NFFT - noverlap)
Freqs(Fs, pad_to) == [b \in 1..NumFreqs(pad_to) |-> ((b - 1) * Fs) \div pad_to]

specgram(X_i, i, NFFT, Fs, noverlap) ==
    LET nf == NumFreqs(NFFT)
        nt == NumFrames(X_i.len, NFFT, noverlap)
    IN <<Grid([b \in 1..nf |-> [t \in 1..nt |->
                  [kind |-> "Pxx", seg |-> i, bin |-> b - 1, col |-> t - 1]]], nt),
         Freqs(Fs, NFFT)>>

\* 10. * np.log10(Pxx), element-wise.
Log10Times10(g) ==
    Grid([b \in 1..Len(g.rows) |-> [t \in 1..g.ncol |->
              [g.rows[b][t] EXCEPT !.kind = "logPxx"]]], g.ncol)

\* ndarray.searchsorted on an ascending array.
searchsorted(a, v, side) ==
    IF side = "left" THEN Cardinality({k \in 1..Len(a) : a[k] < v})
                     ELSE Cardinality({k \in 1..Len(a) : a[k] <= v})

\* Pxx[:n] and Pxx[n:] for n >= 0.
SliceTo(g, n) == Grid(SubSeq(g.rows, 1, Min2(n, Len(g.rows))), g.ncol)
SliceFrom(g, n) == Grid(SubSeq(g.rows, Min2(n, Len(g.rows)) + 1, Len(g.rows)), g.ncol)

ClipUpperSideLeft == "left"
ClipUpperSide == "right"
ClipUpperSentinel == 1000
ClipUpper(s, Pxx, freqs) ==
    IF s.clip_upper < ClipUpperSentinel
    THEN SliceTo(Pxx, searchsorted(freqs, s.clip_upper, ClipUpperSide))
    ELSE Pxx

ClipLower(s, Pxx, freqs) ==
    IF s.clip_lower > 0
    THEN SliceFrom(Pxx, searchsorted(freqs, s.clip_lower, "left"))
    ELSE Pxx

ClipLowerFirst(s, Pxx, freqs) == ClipUpper(s, ClipLower(s, Pxx, freqs), freqs)
Clip(s, Pxx, freqs) == ClipLower(s, ClipUpper(s, Pxx, freqs), freqs)

\* PCA(n_components=k, whiten=True).fit_transform(Pxx): the rows of Pxx are the
\* samples, its columns the features; the result is [rows, k].  For k above
\* min(rows, cols) the library version decides: "strict" raises, "lenient"
\* keeps min(rows, cols) components.
PcaGridComponentsFirst(g, i, k) ==
    Grid([c \in 1..k |-> [t \in 1..g.ncol |->
              [kind |-> "pca", seg |-> i, bin |-> c - 1, col |-> t - 1]]], g.ncol)
PcaGrid(g, i, k) ==
    Grid([r \in 1..Len(g.rows) |-> [c \in 1..k |->
              [kind |-> "pca", seg |-> i, bin |-> g.rows[r][1].bin, col |-> c - 1]]], k)
fit_transform(g, i, k, version) ==
    LET m == Min2(Len(g.rows), g.ncol)
    IN IF k <= m THEN [kind |-> "ok", Pxx |-> PcaGrid(g, i, k)]
       ELSE IF version = "strict" THEN [kind |-> "raised", Pxx |-> g]
       ELSE [kind |-> "ok", Pxx |-> IF m = 0 THEN Grid(<<>>, 0) ELSE PcaGrid(g, i, m)]

\* Lines 64-81 for segment i: the processed grid, or the error of the PCA.
ProcessSegment(s, X_i, i, version) ==
    LET sg == specgram(X_i, i, s.NFFT, s.Fs, s.noverlap)
        P1 == IF s.log THEN Log10Times10(sg[1]) ELSE sg[1]
        P2 == Clip(s, P1, sg[2])
    IN IF s.whiten # 0 THEN fit_transform(P2, i, s.whiten, version)
       ELSE [kind |-> "ok", Pxx |-> P2]

Uninit == [kind |-> "uninit", seg |-> 0, bin |-> 0, col |-> 0]
FlattenGrid(g) == Concat(g.rows)

\* np.empty of lines 85 and 87-88.
AllocShape(s, n, Pxx) ==
    IF s.flatten THEN <<n, GridSize(Pxx)>> ELSE <<n, Len(Pxx.rows), Pxx.ncol>>
np_empty(shape) ==
    ndarray(shape,
            IF Len(shape) = 2
            THEN [i \in 1..shape[1] |-> [k \in 1..shape[2] |-> Uninit]]
            ELSE [i \in 1..shape[1] |-> [a \in 1..shape[2] |-> [b \in 1..shape[3] |-> Uninit]]])

\* numpy broadcasting of an assignment: a source dimension must equal the
\* target's or be 1, and a dimension of 1 is repeated.
Broadcastable(src, dst) == src = dst \/ src = 1
AssignRow1(arr, i, flat) ==
    LET L == arr.shape[2]
    IN IF Broadcastable(Len(flat), L)
       THEN [kind |-> "ok",
             arr |-> [arr EXCEPT !.data[i] =
                        [k \in 1..L |-> IF Len(flat) = L THEN flat[k] ELSE flat[1]]]]
       ELSE [kind |-> "raised", arr |-> arr]
AssignRow2(arr, i, g) ==
    LET A == arr.shape[2]
        B == arr.shape[3]
        r == Len(g.rows)
        c == g.ncol
    IN IF Broadcastable(r, A) /\ Broadcastable(c, B)
       THEN [kind |-> "ok",
             arr |-> [arr EXCEPT !.data[i] =
                        [a \in 1..A |-> [b \in 1..B |->
                            g.rows[IF r = A THEN a ELSE 1][IF c = B THEN b ELSE 1]]]]]
       ELSE [kind |-> "raised", arr |-> arr]

\* Lines 83-94: allocate on the first segment, then write row i.
StoreSegment(s, n, X_prime, i, Pxx) ==
    LET arr == IF X_prime.type = "NoneType" THEN np_empty(AllocShape(s, n, Pxx)) ELSE X_prime
    IN IF s.flatten THEN AssignRow1(arr, i, FlattenGrid(Pxx))
                    ELSE AssignRow2(arr, i, Pxx)

\* The loop of lines 63-94 from segment i on, and the return of line 95.
RECURSIVE SpectrogramLoop(_, _, _, _, _)
SpectrogramLoop(s, x, i, X_prime, version) ==
    IF i > Len(x) THEN Returned(X_prime)
    ELSE LET p == ProcessSegment(s, x[i], i, version)
         IN IF p.kind = "raised" THEN Raised("ValueError")
            ELSE LET w == StoreSegment(s, Len(x), X_prime, i, p.Pxx)
                 IN IF w.kind = "raised" THEN Raised("ValueError")
                    ELSE SpectrogramLoop(s, x, i + 1, w.arr, version)

SpectrogramTransform(s, x, version) == SpectrogramLoop(s, x, 1, None, version)

(***************************************************************************)
(* FlattenTransformer                                                      *)
(***************************************************************************)
FlattenTransformer(scale) == [scale |-> scale]

\* X_i.flatten(): a row-major copy of the [A, B] matrix m.
FlattenColumnMajor(m) ==
    IF m = <<>> THEN <<>>
    ELSE Concat([b \in 1..Len(m[1]) |-> [a \in 1..Len(m) |-> m[a][b]]])
ndarray_flatten(m) == Concat(m)

\* Lines 107-112.  The result holds the return value and the batch as the call
\* leaves it.  The float32 output holds the model's small integers exactly.
FlattenTransform(s, x) ==
    LET N == x.shape[1]
        filled == [i \in 1..N |-> ndarray_flatten(x.data[i])]
        scaled == [i \in 1..N |-> [k \in 1..Len(filled[i]) |-> filled[i][k] * s.scale]]
    IN [ret |-> Returned(ndarray(<<N, x.shape[2] * x.shape[3]>>, scaled)), X |-> x]

(***************************************************************************)
(* SpectrogramStatsTransformer                                             *)
(***************************************************************************)
Abs(a) == IF a < 0 THEN -a ELSE a
RECURSIVE GCD(_, _)
GCD(a, b) == IF b = 0 THEN a ELSE GCD(b, a % b)
\* The rational n/d (d > 0) in lowest terms.
Rat(n, d) == LET g == GCD(Abs(n), d) IN <<n \div g, d \div g>>
RatSub(p, q) == Rat(p[1] * q[2] - q[1] * p[2], p[2] * q[2])

RECURSIVE Sum(_)
Sum(v) == IF v = <<>> THEN 0 ELSE Head(v) + Sum(Tail(v))
Squares(v) == [k \in 1..Len(v) |-> v[k] * v[k]]
\* The k-th smallest element of v (1-based).
Kth(v, k) ==
    CHOOSE x \in {v[j] : j \in 1..Len(v)} :
        /\ Cardinality({j \in 1..Len(v) : v[j] < x}) < k
        /\ Cardinality({j \in 1..Len(v) : v[j] <= x}) >= k

\* The five numpy reductions on a non-empty integer vector.
np_min(v) == Rat(Kth(v, 1), 1)
np_max(v) == Rat(Kth(v, Len(v)), 1)
np_mean(v) == Rat(Sum(v), Len(v))
np_var(v) == Rat(Len(v) * Sum(Squares(v)) - Sum(v) * Sum(v), Len(v) * Len(v))
np_median(v) ==
    IF Len(v) % 2 = 1 THEN Rat(Kth(v, (Len(v) + 1) \div 2), 1)
    ELSE Rat(Kth(v, Len(v) \div 2) + Kth(v, Len(v) \div 2 + 1), 2)

\* self.stats of lines 126-129.
statsMedianBeforeVar == <<"min", "max", "mean", "median", "var">>
stats == <<"min", "max", "mean", "var", "median">>
SpectrogramStatsTransformer(axis, delta, delta_delta) ==
    [stats |-> stats, axis |-> axis, delta |-> delta, delta_delta |-> delta_delta]

Reduce(stat, v) ==
    CASE stat = "min" -> np_min(v)
      [] stat = "max" -> np_max(v)
      [] stat = "mean" -> np_mean(v)
      [] stat = "var" -> np_var(v)
      [] stat = "median" -> np_median(v)

\* stat(X_i, axis=axis) on the [A, B] matrix m: axis 0 reduces the rows away
\* and leaves one value per column, axis 1 leaves one value per row.
Column(m, c) == [r \in 1..Len(m) |-> m[r][c]]
ApplyStat(stat, m, ncol, axis) ==
    IF axis = 0 THEN [c \in 1..ncol |-> Reduce(stat, Column(m, c))]
                ELSE [r \in 1..Len(m) |-> Reduce(stat, m[r])]

\* np.diff of a vector of rationals.
np_diff(v) ==
    IF Len(v) < 2 THEN <<>> ELSE [k \in 1..(Len(v) - 1) |-> RatSub(v[k + 1], v[k])]

\* Lines 139-142: the size of the dimension the reduction leaves.
BaseBins(s, x) == IF s.axis = 0 THEN x.shape[3] ELSE x.shape[2]
\* Lines 145 and 148.
NDelta(n_bins) == n_bins - 1
NDeltaDeltaAsDelta(n_delta) == n_delta
NDeltaDelta(n_delta) == n_delta - 1
\* Lines 144-149: n_bins as np.empty reads it.
EffectiveBins(s, x) ==
    LET n0 == BaseBins(s, x)
        n1 == IF s.delta THEN n0 + NDelta(n0) ELSE n0
    IN IF s.delta_delta THEN n1 + NDeltaDelta(NDelta(n0)) ELSE n1

\* Lines 156-162: the vector written for one statistic.
StatVals(s, stat, m, ncol) ==
    LET base == ApplyStat(stat, m, ncol, s.axis)
        delta == np_diff(base)
        v1 == IF s.delta THEN base \o delta ELSE base
    IN IF s.delta_delta THEN v1 \o np_diff(delta) ELSE v1

\* The slice n_bins * j : n_bins * (j + 1) of line 163.
BlockStart(n_bins, j) == n_bins * j
BlockStop(n_bins, j) == n_bins * (j + 1)

UninitNumber == <<0, 0>>
\* row[start:stop] = vals, with the slice clipped to the row and vals broadcast.
AssignSlice(row, start, stop, vals) ==
    LET lo == Min2(Max2(start, 0), Len(row))
        hi == Max2(Min2(Max2(stop, 0), Len(row)), lo)
        n == hi - lo
    IN IF Broadcastable(Len(vals), n)
       THEN [kind |-> "ok",
             row |-> [k \in 1..Len(row) |->
                        IF k > lo /\ k <= hi
                        THEN (IF Len(vals) = n THEN vals[k - lo] ELSE vals[1])
                        ELSE row[k]]]
       ELSE [kind |-> "raised", row |-> row]

\* The inner loop of lines 155-163 for one segment, from statistic j (0-based) on.
RECURSIVE StatsRow(_, _, _, _, _, _)
StatsRow(s, m, ncol, n_bins, row, j) ==
    IF j >= Len(s.stats) THEN [kind |-> "ok", row |-> row]
    ELSE LET w == AssignSlice(row, BlockStart(n_bins, j), BlockStop(n_bins, j),
                              StatVals(s, s.stats[j + 1], m, ncol))
         IN IF w.kind = "raised" THEN w
            ELSE StatsRow(s, m, ncol, n_bins, w.row, j + 1)

\* The outer loop of lines 153-163 from segment i on, and the return of line 164.
RECURSIVE StatsLoop(_, _, _, _, _)
StatsLoop(s, x, n_bins, out, i) ==
    IF i > x.shape[1] THEN Returned(out)
    ELSE LET w == StatsRow(s, x.data[i], x.shape[3], n_bins, out.data[i], 0)
         IN IF w.kind = "raised" THEN Raised("ValueError")
            ELSE StatsLoop(s, x, n_bins, [out EXCEPT !.data[i] = w.row], i + 1)

\* Lines 137-164.  An axis other than 0 and 1 leaves n_bins unbound, and
\* delta_delta without delta leaves n_delta unbound.
StatsTransform(s, x) ==
    LET n_stats == Len(s.stats)
        n_bins == EffectiveBins(s, x)
        N == x.shape[1]
    IN IF s.axis \notin {0, 1} THEN Raised("UnboundLocalError")
       ELSE IF s.delta_delta /\ ~s.delta THEN Raised("UnboundLocalError")
       ELSE IF n_stats * n_bins < 0 THEN Raised("ValueError")
       ELSE StatsLoop(s, x, n_bins,
                      ndarray(<<N, n_stats * n_bins>>,
                              [i \in 1..N |-> [k \in 1..(n_stats * n_bins) |-> UninitNumber]]),
                      1)

(***************************************************************************)
(* The calls.                                                              *)
(***************************************************************************)
SpectrogramConfigs ==
    {SpectrogramTransformer(Fs, NFFT, NFFT - 2, cu, cl, w, lg, fl) :
        Fs \in FsValues, NFFT \in NFFTValues, cu \in ClipUpperValues,
        cl \in ClipLowerValues, w \in WhitenValues, lg \in BOOLEAN, fl \in BOOLEAN}
SegmentBatches == SeqsUpTo({[len |-> n] : n \in SegmentLengths}, MaxN)

\* The integer batches [N, A, B] of the flatten and statistics transformers.
Val(seed, i, a, b) == (((seed + 2) * (3 * i + 5 * a * a + 7 * b + a * b)) % 11) - 3
Batch3D(n, A, B, seed) ==
    ndarray(<<n, A, B>>,
            [i \in 1..n |-> [a \in 1..A |-> [b \in 1..B |-> Val(seed, i, a, b)]]])
Batches3D(minDim) ==
    {Batch3D(n, A, B, seed) :
        n \in 0..MaxN, A \in minDim..MaxDim, B \in minDim..MaxDim, seed \in 0..MaxSeed}

InitSpectrogram ==
    /\ op = "spectrogram"
    /\ self \in SpectrogramConfigs
    /\ X \in SegmentBatches
    /\ lib \in {"strict", "lenient"}
    /\ ret = Pending

InitFlatten ==
    /\ op = "flatten"
    /\ self \in {FlattenTransformer(sc) : sc \in ScaleValues}
    /\ X \in Batches3D(0)
    /\ lib = "strict"
    /\ ret = Pending

InitStats ==
    /\ op = "stats"
    /\ self \in {SpectrogramStatsTransformer(ax, d, dd) :
                    ax \in Axes, d \in BOOLEAN, dd \in BOOLEAN}
    /\ X \in Batches3D(1)
    /\ lib = "strict"
    /\ ret = Pending

DoSpectrogramTransform ==
    /\ op = "spectrogram"
    /\ ret.kind = "pending"
    /\ ret' = SpectrogramTransform(self, X, lib)
    /\ UNCHANGED <<op, self, X, lib>>

DoFlattenTransform ==
    /\ op = "flatten"
    /\ ret.kind = "pending"
    /\ LET r == FlattenTransform(self, X)
       IN ret' = r.ret /\ X' = r.X
    /\ UNCHANGED <<op, self, lib>>

DoStatsTransform ==
    /\ op = "stats"
    /\ ret.kind = "pending"
    /\ ret' = StatsTransform(self, X)
    /\ UNCHANGED <<op, self, X, lib>>

Init == InitSpectrogram \/ InitFlatten \/ InitStats
Next == DoSpectrogramTransform \/ DoFlattenTransform \/ DoStatsTransform
Spec == Init /\ [][Next]_vars

(***************************************************************************)
(* Properties.  Helpers shared by the statements below.                    *)
(***************************************************************************)
Done == ret.kind # "pending"
IsArray == ret.kind = "returned" /\ ret.value.type = "ndarray"
Uniform == \A i \in 1..Len(X) : X[i].len = X[1].len
Range(lo, hi) == IF hi > lo THEN [k \in 1..(hi - lo) |-> lo + k - 1] ELSE <<>>

\* The frequency axis of the call's configuration and its size.
Axis == Freqs(self.Fs, self.NFFT)
Bins == Len(Axis)
FramesOf(i) == NumFrames(X[i].len, self.NFFT, self.noverlap)

\* The bins (0-based, on the unclipped axis) that row i of the output holds, in
\* the order it holds them.
RECURSIVE Dedupe(_)
Dedupe(v) ==
    IF Len(v) <= 1 THEN v
    ELSE IF v[1] = v[2] THEN Dedupe(Tail(v)) ELSE <<v[1]>> \o Dedupe(Tail(v))
RowCells(i) == IF self.flatten THEN ret.value.data[i] ELSE Concat(ret.value.data[i])
RowBins(i) == Dedupe([k \in 1..Len(RowCells(i)) |-> RowCells(i)[k].bin])

\* The index (0-based) of the first frequency above c, or at or above c.
\* (the size of the axis when there is none).
Least(S) == CHOOSE k \in S : \A m \in S : k <= m
FirstAbove(c) == Least({b \in 0..(Bins - 1) : Axis[b + 1] > c} \cup {Bins})
FirstAtOrAbove(c) == Least({b \in 0..(Bins - 1) : Axis[b + 1] >= c} \cup {Bins})

\* C1: for every batch of N uniform-length segments, N = 0 included, the
\* spectrogram transform returns an array whose first dimension is N, and with
\* flatten=True its width is bins*frames of the grid flatten=False emits.
C1_ShapeInvariant ==
    (op = "spectrogram" /\ Uniform /\ ret.kind = "returned") =>
        /\ ret.value.type = "ndarray"
        /\ ret.value.shape[1] = Len(X)
        /\ self.flatten =>
             LET u == SpectrogramTransform([self EXCEPT !.flatten = FALSE], X, lib).value
             IN ret.value.shape[2] = u.shape[2] * u.shape[3]

\* The rows kept when only the upper clip is configured.
UpperOnly == op = "spectrogram" /\ self.clip_lower <= 0 /\ self.whiten = 0 /\ IsArray
\* The bins of segment i's grid when the upper clip is switched off.
UnclippedBins(i) ==
    Len(ProcessSegment([self EXCEPT !.clip_upper = ClipUpperSentinel], X[i], i, lib).Pxx.rows)

BothClips == op = "spectrogram" /\ self.clip_upper < 1000 /\ self.clip_lower > 0 /\ IsArray
C9_BandIsLoToHi ==
    BothClips =>
        \A i \in 1..Len(X) :
            RowBins(i) = Range(FirstAtOrAbove(self.clip_lower), FirstAbove(self.clip_upper))

\* Both clips cut bins away and a band of two or more bins is left.
C9_Witness ==
    /\ BothClips /\ Len(X) >= 1
    /\ FirstAtOrAbove(self.clip_lower) > 0
    /\ FirstAbove(self.clip_upper) < Bins
    /\ Len(RowBins(1)) >= 2

\* The processed grid of segment i, and whether one after the first differs
\* in shape from the first.
Processed(i) == ProcessSegment(self, X[i], i, lib)
AllProcessed == \A i \in 1..Len(X) : Processed(i).kind = "ok"
ShapeMismatch ==
    /\ AllProcessed
    /\ \E i \in 2..Len(X) : GridShape(Processed(i).Pxx) # GridShape(Processed(1).Pxx)

\* C6: a segment after the first whose processed grid differs in shape from the
\* first one's makes the call raise, and every returned batch holds in row i
\* exactly segment i's own grid.
C6_MismatchRaises ==
    (op = "spectrogram" /\ Done) =>
        /\ ShapeMismatch => ret.kind = "raised"
        /\ IsArray =>
             \A i \in 1..Len(X) :
                ret.value.data[i] = IF self.flatten THEN FlattenGrid(Processed(i).Pxx)
                                                    ELSE Processed(i).Pxx.rows

\* The bins the clips leave, and whether the PCA can give k components for
\* every segment.
Band == Max2(0, (IF self.clip_upper < 1000 THEN FirstAbove(self.clip_upper) ELSE Bins)
                - (IF self.clip_lower > 0 THEN FirstAtOrAbove(self.clip_lower) ELSE 0))
Whitened == op = "spectrogram" /\ self.whiten >= 1 /\ IsArray
EnoughForPca == \A i \in 1..Len(X) : self.whiten <= Min2(Band, FramesOf(i))

\* C8 (amended): with whiten = k and k <= min(bins, frames), each segment's
\* [bins, frames] grid is replaced by one of shape [bins, k]: the components
\* take the place of the time-frame axis and the bins are kept, so the output
\* is [N, bins, k], of flattened width bins*k.
C8_WhitenKeepsBins ==
    (Whitened /\ EnoughForPca) =>
        /\ ret.value.shape = IF self.flatten THEN <<Len(X), Band * self.whiten>>
                                             ELSE <<Len(X), Band, self.whiten>>
        /\ \A i \in 1..Len(X) :
             /\ \A k \in 1..Len(RowCells(i)) : RowCells(i)[k].kind = "pca"
             /\ Len(RowBins(i)) = Band

\* C8 as stated: the output is [N, k, frames], of flattened width k*frames.
C8_WhitenKeepsFrames ==
    Whitened =>
        ret.value.shape = IF self.flatten THEN <<Len(X), self.whiten * FramesOf(1)>>
                                          ELSE <<Len(X), self.whiten, FramesOf(1)>>

\* A whitened batch whose bins, frames and component count all differ.
C8_Witness ==
    /\ Whitened /\ EnoughForPca /\ Len(X) >= 2
    /\ self.whiten < Band /\ self.whiten < FramesOf(1) /\ Band # FramesOf(1)

\* C7: FlattenTransformer maps [N, A, B] to [N, A*B] with
\* out[i, a*B + b] = scale * X[i, a, b]; the output for scale 2 is twice the
\* output for scale 1, and the call leaves X unchanged.
C7_Cells ==
    (op = "flatten" /\ Done) =>
        /\ IsArray
        /\ ret.value.shape = <<X.shape[1], X.shape[2] * X.shape[3]>>
        /\ \A i \in 1..X.shape[1] :
             /\ Len(ret.value.data[i]) = X.shape[2] * X.shape[3]
             /\ \A a \in 0..(X.shape[2] - 1), b \in 0..(X.shape[3] - 1) :
                  ret.value.data[i][a * X.shape[3] + b + 1] = self.scale * X.data[i][a + 1][b + 1]
        /\ self.scale = 2 =>
             LET one == FlattenTransform(FlattenTransformer(1), X).ret.value
             IN \A i \in 1..X.shape[1] : \A k \in 1..Len(one.data[i]) :
                  ret.value.data[i][k] = 2 * one.data[i][k]
C7_FlattenScale == [][op = "flatten" => (X' = X /\ C7_Cells')]_vars

\* A doubled batch with more than one row and column per segment.
C7_Witness ==
    /\ op = "flatten" /\ IsArray /\ self.scale = 2
    /\ X.shape[1] >= 2 /\ X.shape[2] >= 2 /\ X.shape[3] >= 3

\* The statistics of a segment, named by position in [min, max, mean, var, median].
Along(m, ncol, axis) ==
    IF axis = 0 THEN [c \in 1..ncol |-> [r \in 1..Len(m) |-> m[r][c]]] ELSE m
Statistic(j, v) ==
    CASE j = 0 -> np_min(v) [] j = 1 -> np_max(v) [] j = 2 -> np_mean(v)
      [] j = 3 -> np_var(v) [] j = 4 -> np_median(v)
Expected(j, i) ==
    LET lines == Along(X.data[i], X.shape[3], self.axis)
    IN [b \in 1..Len(lines) |-> Statistic(j, lines[b])]
Differences(v) == [k \in 1..(Len(v) - 1) |-> <<v[k + 1][1] * v[k][2] - v[k][1] * v[k + 1][2],
                                                  v[k][2] * v[k + 1][2]>>]
SameNumbers(v, w) ==
    /\ Len(v) = Len(w)
    /\ \A k \in 1..Len(v) : v[k][2] > 0 /\ w[k][2] > 0 /\ v[k][1] * w[k][2] = w[k][1] * v[k][2]
StatsCall == op = "stats" /\ self.axis \in {0, 1} /\ Done
NonReduced == IF self.axis = 0 THEN X.shape[3] ELSE X.shape[2]
Block(i, j, len) == SubSeq(ret.value.data[i], len * j + 1, len * (j + 1))

\* C3: without delta and delta_delta, columns [j*n_bins, (j+1)*n_bins) of row
\* i hold statistic j of [min, max, mean, var, median] of X[i] along axis, with
\* n_bins the size of the dimension that is not reduced; the five blocks are
\* disjoint and cover the row.
C3_StatsOrdering ==
    (StatsCall /\ ~self.delta /\ ~self.delta_delta) =>
        /\ IsArray
        /\ ret.value.shape = <<X.shape[1], 5 * NonReduced>>
        /\ \A i \in 1..X.shape[1] :
             /\ Len(ret.value.data[i]) = 5 * NonReduced
             /\ \A j \in 0..4 : SameNumbers(Block(i, j, NonReduced), Expected(j, i))

C3_Witness ==
    /\ StatsCall /\ ~self.delta /\ ~self.delta_delta /\ IsArray
    /\ X.shape[1] >= 2 /\ X.shape[2] >= 2 /\ X.shape[3] >= 3
    /\ \A j, k \in 0..4 : j # k => ~SameNumbers(Block(1, j, NonReduced), Block(1, k, NonReduced))

\* C4: with n_bins >= 3, delta alone gives blocks of 2*n_bins - 1 (the statistic,
\* then its differences), delta with delta_delta blocks of 3*n_bins - 3 (then
\* the differences of the differences); the vector of statistic j has the block
\* length and lands at block_length*j, and the width is 5 block lengths.
DeltaBlock == IF self.delta_delta THEN 3 * NonReduced - 3 ELSE 2 * NonReduced - 1
C4_DeltaLengths ==
    (StatsCall /\ self.delta /\ NonReduced >= 3) =>
        /\ IsArray
        /\ ret.value.shape = <<X.shape[1], 5 * DeltaBlock>>
        /\ \A i \in 1..X.shape[1] :
             /\ Len(ret.value.data[i]) = 5 * DeltaBlock
             /\ \A j \in 0..4 :
                  LET base == Expected(j, i)
                      d1 == Differences(base)
                  IN SameNumbers(Block(i, j, DeltaBlock),
                                 IF self.delta_delta THEN base \o d1 \o Differences(d1)
                                                     ELSE base \o d1)

C4_Witness ==
    /\ StatsCall /\ self.delta /\ self.delta_delta /\ NonReduced >= 3 /\ IsArray
    /\ X.shape[1] >= 2
    /\ \E k \in (2 * NonReduced)..DeltaBlock : ret.value.data[2][k][1] # 0

\* C5: the statistics transform of a batch with a segment in it raises whenever
\* delta is set and the statistic vector has fewer than 2 bins, or delta_delta
\* is set and it has fewer than 3.
C5_TooFewBinsRaises ==
    (/\ StatsCall /\ X.shape[1] >= 1
     /\ ((self.delta /\ NonReduced < 2) \/ (self.delta_delta /\ NonReduced < 3))) =>
        ret.kind = "raised"

\* C10: for every combination of delta and delta_delta, delta_delta alone
\* included, a batch with n_bins >= 3 gives an output of width
\* 5 * (n_bins + (n_bins-1 if delta) + (n_bins-2 if delta_delta)).
C10_EveryFlagCombination ==
    (StatsCall /\ NonReduced >= 3) =>
        /\ IsArray
        /\ ret.value.shape[2] = 5 * (NonReduced + (IF self.delta THEN NonReduced - 1 ELSE 0)
                                       + (IF self.delta_delta THEN NonReduced - 2 ELSE 0))
====
